---- MODULE Spec2Model ----
(***************************************************************************)
(* A model of mega_telegram_bot_backup.py: the message handler             *)
(* handle_mega_link, the link classifier is_mega_link, the pipeline        *)
(* process_mega_folder (folder resolution, media filter, transfer loop)    *)
(* and upload_to_telegram.                                                 *)
(*                                                                         *)
(* Python strings are sequences of one-character strings, so that          *)
(* strip, lower, endswith, `in', urlparse and re.search are computed       *)
(* character by character.  Every call into the chat client or the storage *)
(* client is a step whose outcome (return or raise) is chosen by the       *)
(* environment.  A behaviour follows the handling of one incoming message. *)
(* The removal of the local file (os.path.exists, os.remove) returns; the  *)
(* choice among send_photo, send_video and send_document and the text of   *)
(* format_file_size change nothing the model records and are left out.     *)
(***************************************************************************)
EXTENDS Integers, Sequences, FiniteSets, TLC

VARIABLES
    pc,              \* position of the handler's control
    message_text,    \* update.message.text.strip(), <<>> before a message
    folder_id,       \* match.group(1)
    folder_files,    \* dict of the resolved folder, in insertion order
    media_files,     \* filter_media_files(folder_files)
    i,               \* enumerate(media_files.items(), 1); 0 before the loop
    uploaded_count,
    failed_count,
    scratch,         \* names of the files present in self.temp_dir
    status,          \* text last shown by reply_text / edit_text
    summary,         \* the counts rendered by the final status
    calls,           \* calls made to the storage client, per method
    log              \* per media record: what the loop did for it

vars == <<pc, message_text, folder_id, folder_files, media_files, i,
          uploaded_count, failed_count, scratch, status, summary, calls, log>>

\* Largest number of entries m.get_files() returns.
MaxFiles == 3

----------------------------------------------------------------------------
(* Python str operations *)

UpperChars ==
    <<"A", "B", "C", "D", "E", "F", "G", "H", "I", "J", "K", "L", "M",
      "N", "O", "P", "Q", "R", "S", "T", "U", "V", "W", "X", "Y", "Z">>

LowerChars ==
    <<"a", "b", "c", "d", "e", "f", "g", "h", "i", "j", "k", "l", "m",
      "n", "o", "p", "q", "r", "s", "t", "u", "v", "w", "x", "y", "z">>

DigitChars == <<"0", "1", "2", "3", "4", "5", "6", "7", "8", "9">>

Range(s) == {s[k] : k \in DOMAIN s}

Letters == Range(UpperChars) \cup Range(LowerChars)

IsAlpha(c) == c \in Letters

\* the lowercase letter of each uppercase letter
LowerOf == [c \in Range(UpperChars) |->
               LowerChars[CHOOSE k \in DOMAIN UpperChars : UpperChars[k] = c]]

\* str.lower() on one character
LowerChar(c) == IF c \in DOMAIN LowerOf THEN LowerOf[c] ELSE c

\* str.lower()
lower(s) == [k \in DOMAIN s |-> LowerChar(s[k])]

\* str.endswith(suffix)
endswith(s, suffix) ==
    /\ Len(suffix) <= Len(s)
    /\ SubSeq(s, Len(s) - Len(suffix) + 1, Len(s)) = suffix

\* s[start:] with a 1-based start
From(s, start) == SubSeq(s, start, Len(s))

\* s[:n] == prefix
StartsWith(s, prefix) ==
    /\ Len(prefix) <= Len(s)
    /\ SubSeq(s, 1, Len(prefix)) = prefix

\* sub in s
Contains(s, sub) ==
    \E k \in 1..(Len(s) + 1) : StartsWith(From(s, k), sub)

\* 1-based index of the first character of s that is in set cs, 0 if none
\* (str.find returns -1 for none)
FindAny(s, cs) ==
    IF \E k \in DOMAIN s : s[k] \in cs
    THEN CHOOSE k \in DOMAIN s : s[k] \in cs /\ \A j \in 1..(k - 1) : s[j] \notin cs
    ELSE 0

\* s up to, not including, the first character in cs (the whole of s if none)
Before(s, cs) ==
    IF FindAny(s, cs) = 0 THEN s ELSE SubSeq(s, 1, FindAny(s, cs) - 1)

RECURSIVE lstrip(_)
lstrip(s) == IF s # <<>> /\ Head(s) = " " THEN lstrip(Tail(s)) ELSE s

RECURSIVE rstrip(_)
rstrip(s) ==
    IF s # <<>> /\ s[Len(s)] = " " THEN rstrip(SubSeq(s, 1, Len(s) - 1)) ELSE s

\* str.strip(); the blank is the only whitespace the texts below contain
strip(s) == rstrip(lstrip(s))

----------------------------------------------------------------------------
(* urllib.parse.urlparse, as far as is_mega_link reads its result: the     *)
(* scheme is split off, the netloc runs from // to the first of / ? #, the  *)
(* path to the first of ? #; unbalanced brackets in the netloc raise.       *)

SchemeChars == Letters \cup Range(DigitChars) \cup {"+", "-", "."}

\* the url with its scheme and the colon removed, when it has a scheme
DropScheme(url) ==
    LET c == FindAny(url, {":"})
    IN  IF /\ c > 1
           /\ IsAlpha(url[1])
           /\ \A k \in 1..(c - 1) : url[k] \in SchemeChars
        THEN From(url, c + 1)
        ELSE url

\* [raised, netloc, path]: raised is the ValueError("Invalid IPv6 URL")
urlparse(url) ==
    LET u      == DropScheme(lstrip(url))
        hasNet == StartsWith(u, <<"/", "/">>)
        netloc == IF hasNet THEN Before(From(u, 3), {"/", "?", "#"}) ELSE <<>>
        rest   == IF hasNet THEN From(u, 3 + Len(netloc)) ELSE u
        bad    == ("[" \in Range(netloc)) # ("]" \in Range(netloc))
    IN  [raised |-> bad,
         netloc |-> netloc,
         path   |-> Before(rest, {"?", "#"})]

MegaHosts ==
    { <<"m", "e", "g", "a", ".", "n", "z">>,
      <<"w", "w", "w", ".", "m", "e", "g", "a", ".", "n", "z">> }

FolderMarker == <<"/", "f", "o", "l", "d", "e", "r", "/">>

\* is_mega_link: the bare except turns a raising urlparse into False
is_mega_link(url) ==
    LET parsed == urlparse(url)
    IN  IF parsed.raised
        THEN FALSE
        ELSE /\ lower(parsed.netloc) \in MegaHosts
             /\ Contains(parsed.path, FolderMarker)

----------------------------------------------------------------------------
(* re.search(r'#F!([a-zA-Z0-9_-]+)!([a-zA-Z0-9_-]+)', mega_url) *)

TokenChars == Letters \cup Range(DigitChars) \cup {"_", "-"}

\* length of the longest run of token characters at the head of s
RECURSIVE TokenRun(_)
TokenRun(s) ==
    IF s # <<>> /\ Head(s) \in TokenChars THEN 1 + TokenRun(Tail(s)) ELSE 0

\* the pattern matches at position k of url
MatchesAt(url, k) ==
    LET t   == From(url, k)
        r1  == TokenRun(From(t, 4))
        bang == From(t, 4 + r1)
    IN  /\ StartsWith(t, <<"#", "F", "!">>)
        /\ r1 >= 1
        /\ StartsWith(bang, <<"!">>)
        /\ TokenRun(Tail(bang)) >= 1

\* [found, group1]: the leftmost match and its first group
folder_pattern_search(url) ==
    IF \E k \in DOMAIN url : MatchesAt(url, k)
    THEN LET k == CHOOSE k \in DOMAIN url :
                      MatchesAt(url, k) /\ \A j \in 1..(k - 1) : ~MatchesAt(url, j)
             t == From(url, k + 3)
         IN  [found |-> TRUE, group1 |-> SubSeq(t, 1, TokenRun(t))]
    ELSE [found |-> FALSE, group1 |-> <<>>]

----------------------------------------------------------------------------
(* filter_media_files *)

media_extensions ==
    { <<".", "j", "p", "g">>, <<".", "j", "p", "e", "g">>, <<".", "p", "n", "g">>,
      <<".", "g", "i", "f">>, <<".", "w", "e", "b", "p">>, <<".", "b", "m", "p">>,
      <<".", "t", "i", "f", "f">>,
      <<".", "m", "p", "4">>, <<".", "a", "v", "i">>, <<".", "m", "o", "v">>,
      <<".", "m", "k", "v">>, <<".", "w", "e", "b", "m">>, <<".", "f", "l", "v">>,
      <<".", "w", "m", "v">>, <<".", "m", "4", "v">> }

\* IsMediaEntry without the .lower(): the suffix test on the name as it is
IsMediaEntryCaseSensitive(e) ==
    /\ e.hasA
    /\ e.hasN
    /\ \E ext \in media_extensions : endswith(e.n, ext)

\* 'a' in file_info and 'n' in file_info['a'], then the suffix test on the
\* lowercased name
IsMediaEntry(e) ==
    /\ e.hasA
    /\ e.hasN
    /\ LET filename == lower(e.n)
       IN  \E ext \in media_extensions : endswith(filename, ext)

\* filter_media_files keeping every entry
filter_media_files_KeepsAll(files) == files

\* a dict is a sequence of entries in insertion order; each entry carries its key
filter_media_files(files) == SelectSeq(files, IsMediaEntry)

----------------------------------------------------------------------------
(* The texts a user sends *)

\* accepted, carries a #F!token!key fragment with token t1
LinkOk ==
    <<"h", "t", "t", "p", "s", ":", "/", "/", "m", "e", "g", "a", ".", "n", "z", "/", "f", "o", "l", "d", "e", "r", "/", "A", "#", "F", "!", "t", "1", "!", "k">>

\* https://mega.nz/folder/ABC123#xyz
LinkNoFragment ==
    <<"h", "t", "t", "p", "s", ":", "/", "/", "m", "e", "g", "a", ".", "n", "z", "/", "f", "o", "l", "d", "e", "r", "/", "A", "B", "C", "1", "2", "3", "#", "x", "y", "z">>

\* accepted: no scheme, upper-case www host, surrounding blanks; the
\* fragment has the #F! marker and an empty token
LinkWwwUpper ==
    <<" ", "/", "/", "W", "W", "W", ".", "M", "e", "g", "a", ".", "N", "Z", "/", "f", "o", "l", "d", "e", "r", "/", "#", "F", "!", "!", "k", "_", "-", "9", " ">>

LinkOtherHost ==
    <<"h", "t", "t", "p", "s", ":", "/", "/", "e", "v", "i", "l", ".", "i", "o", "/", "f", "o", "l", "d", "e", "r", "/", "#", "F", "!", "t", "1", "!", "k">>

LinkFilePath ==
    <<"h", "t", "t", "p", "s", ":", "/", "/", "m", "e", "g", "a", ".", "n", "z", "/", "f", "i", "l", "e", "/", "A", "#", "F", "!", "t", "1", "!", "k">>

LinkNoNetloc ==
    <<"m", "e", "g", "a", ".", "n", "z", "/", "f", "o", "l", "d", "e", "r", "/", "A">>

LinkBadBracket ==
    <<"h", "t", "t", "p", ":", "/", "/", "[", "m", "e", "g", "a", ".", "n", "z", "/", "f", "o", "l", "d", "e", "r", "/", "A">>

LinkMarkerInFragment ==
    <<"h", "t", "t", "p", "s", ":", "/", "/", "m", "e", "g", "a", ".", "n", "z", "/", "#", "/", "f", "o", "l", "d", "e", "r", "/", "F", "!", "t", "1", "!", "k">>

Texts ==
    { LinkOk, LinkNoFragment, LinkWwwUpper, LinkOtherHost, LinkFilePath,
      LinkNoNetloc, LinkBadBracket, LinkMarkerInFragment }


----------------------------------------------------------------------------
(* The entries m.get_files() returns.  An entry is one item of the files   *)
(* dict: id is its key; isdict is isinstance(file_data, dict); hasA, hasN, *)
(* hasP, hasS say whether 'a', 'a'.'n', 'p', 's' are present; n and p are  *)
(* the name and the parent handle.                                         *)

Token1 == <<"t", "1">>
TokenElsewhere == <<"z", "z">>

NoEntryFields ==
    [isdict |-> FALSE, hasA |-> FALSE, hasN |-> FALSE, n |-> <<>>,
     hasP |-> FALSE, p |-> <<>>, hasS |-> FALSE]

MediaEntry(name, parent) ==
    [isdict |-> TRUE, hasA |-> TRUE, hasN |-> TRUE, n |-> name,
     hasP |-> TRUE, p |-> parent, hasS |-> TRUE]

EntryNotDict == NoEntryFields
EntryNoAttr == [NoEntryFields EXCEPT !.isdict = TRUE]
EntryNoName == [NoEntryFields EXCEPT !.isdict = TRUE, !.hasA = TRUE,
                                     !.hasP = TRUE, !.p = Token1]
EntryJpg == MediaEntry(<<"a", ".", "J", "P", "G">>, Token1)
EntryPdf == MediaEntry(<<"c", ".", "p", "d", "f">>, Token1)
EntryMp4Elsewhere == MediaEntry(<<"b", ".", "m", "p", "4">>, TokenElsewhere)
EntryGifNoSize == [MediaEntry(<<"e", ".", "g", "i", "f">>, Token1) EXCEPT !.hasS = FALSE]

EntryShapes ==
    { EntryNotDict, EntryNoAttr, EntryNoName, EntryJpg, EntryPdf,
      EntryMp4Elsewhere, EntryGifNoSize }

WithId(shape, k) ==
    [id |-> k, isdict |-> shape.isdict, hasA |-> shape.hasA, hasN |-> shape.hasN,
     n |-> shape.n, hasP |-> shape.hasP, p |-> shape.p, hasS |-> shape.hasS]

\* the dicts get_files can return: up to MaxFiles entries, keys distinct
Listings ==
    UNION { { [k \in 1..len |-> WithId(f[k], k)] : f \in [1..len -> EntryShapes] }
            : len \in 0..MaxFiles }

\* lines 116-120: entries of the listing whose parent is the folder token
DirectEntry(e, fid) == e.isdict /\ e.hasA /\ e.hasP /\ e.p = fid

DirectFolderFiles(files, fid) ==
    LET Keep(e) == DirectEntry(e, fid) IN SelectSeq(files, Keep)

\* lines 130-132: every entry of the new listing that carries an attribute blob
ImportedEntry(e) == e.isdict /\ e.hasA

ImportedFolderFiles(files) == SelectSeq(files, ImportedEntry)

----------------------------------------------------------------------------
(* State and steps *)

NoSummary == [shown |-> FALSE, uploaded |-> 0, failed |-> 0, total |-> 0]

NoCalls == [login |-> 0, get_files |-> 0, import_public_url |-> 0]

\* what the loop did for one media record: calls of m.download and of
\* upload_to_telegram, whether the download returned, increments of the two
\* counters made in its iteration, and the step that failed
FreshLog ==
    [dl |-> 0, dl_ok |-> FALSE, snd |-> 0, up |-> 0, fail |-> 0, cause |-> "none"]

Init ==
    /\ pc = "idle"
    /\ message_text = <<>>
    /\ folder_id = <<>>
    /\ folder_files = <<>>
    /\ media_files = <<>>
    /\ i = 0
    /\ uploaded_count = 0
    /\ failed_count = 0
    /\ scratch = {}
    /\ status = "none"
    /\ summary = NoSummary
    /\ calls = NoCalls
    /\ log = <<>>

\* await reply_text / edit_text: on return the text is shown and control goes
\* to okpc; on raise the shown text stays and control goes to failpc
Edit(ok, text, okpc, failpc) ==
    IF ok THEN status' = text /\ pc' = okpc
          ELSE status' = status /\ pc' = failpc

\* HandleMegaLink without the is_mega_link check and its early return
HandleMegaLinkUnchecked ==
    /\ pc = "idle"
    /\ \E t \in Texts, ok \in BOOLEAN :
        /\ message_text' = strip(t)
        /\ Edit(ok, "processing", "connecting", "raised")
    /\ UNCHANGED <<folder_id, folder_files, media_files, i, uploaded_count,
                   failed_count, scratch, summary, calls, log>>

\* lines 52-63 with the classifier check
HandleMegaLink ==
    /\ pc = "idle"
    /\ \E t \in Texts, ok \in BOOLEAN :
        /\ message_text' = strip(t)
        /\ IF ~is_mega_link(strip(t))
           THEN Edit(ok, "usage", "returned", "raised")
           ELSE Edit(ok, "processing", "connecting", "raised")
    /\ UNCHANGED <<folder_id, folder_files, media_files, i, uploaded_count,
                   failed_count, scratch, summary, calls, log>>

\* line 91
EditConnecting ==
    /\ pc = "connecting"
    /\ \E ok \in BOOLEAN : Edit(ok, "connecting", "login", "outer_except")
    /\ UNCHANGED <<message_text, folder_id, folder_files, media_files, i,
                   uploaded_count, failed_count, scratch, summary, calls, log>>

\* line 94
Login ==
    /\ pc = "login"
    /\ calls' = [calls EXCEPT !.login = @ + 1]
    /\ \E ok \in BOOLEAN : pc' = IF ok THEN "edit_getting" ELSE "outer_except"
    /\ UNCHANGED <<message_text, folder_id, folder_files, media_files, i,
                   uploaded_count, failed_count, scratch, status, summary, log>>

\* line 97
EditGetting ==
    /\ pc = "edit_getting"
    /\ \E ok \in BOOLEAN : Edit(ok, "getting", "match", "outer_except")
    /\ UNCHANGED <<message_text, folder_id, folder_files, media_files, i,
                   uploaded_count, failed_count, scratch, summary, calls, log>>

\* lines 100-106: no match
RejectLinkFormat ==
    /\ pc = "match"
    /\ ~folder_pattern_search(message_text).found
    /\ \E ok \in BOOLEAN : Edit(ok, "invalid_format", "returned", "outer_except")
    /\ UNCHANGED <<message_text, folder_id, folder_files, media_files, i,
                   uploaded_count, failed_count, scratch, summary, calls, log>>

\* GetFiles without the `if not match: return'
GetFilesUnchecked ==
    /\ pc = "match"
    /\ folder_id' = folder_pattern_search(message_text).group1
    /\ calls' = [calls EXCEPT !.get_files = @ + 1]
    /\ \/ /\ pc' = "outer_except"
          /\ UNCHANGED folder_files
       \/ \E files \in Listings :
            /\ folder_files' = DirectFolderFiles(files, folder_id')
            /\ pc' = IF folder_files' = <<>> THEN "edit_importing" ELSE "resolved"
    /\ UNCHANGED <<message_text, media_files, i, uploaded_count, failed_count,
                   scratch, status, summary, log>>

\* GetFiles importing whether or not the direct listing found entries
GetFilesAlwaysImports ==
    /\ pc = "match"
    /\ folder_pattern_search(message_text).found
    /\ folder_id' = folder_pattern_search(message_text).group1
    /\ calls' = [calls EXCEPT !.get_files = @ + 1]
    /\ \/ /\ pc' = "outer_except"
          /\ UNCHANGED folder_files
       \/ \E files \in Listings :
            /\ folder_files' = DirectFolderFiles(files, folder_id')
            /\ pc' = "edit_importing"
    /\ UNCHANGED <<message_text, media_files, i, uploaded_count, failed_count,
                   scratch, status, summary, log>>

\* lines 100-122: a match, the listing and the entries of the folder
GetFiles ==
    /\ pc = "match"
    /\ folder_pattern_search(message_text).found
    /\ folder_id' = folder_pattern_search(message_text).group1
    /\ calls' = [calls EXCEPT !.get_files = @ + 1]
    /\ \/ /\ pc' = "outer_except"
          /\ UNCHANGED folder_files
       \/ \E files \in Listings :
            /\ folder_files' = DirectFolderFiles(files, folder_id')
            /\ pc' = IF folder_files' = <<>> THEN "edit_importing" ELSE "resolved"
    /\ UNCHANGED <<message_text, media_files, i, uploaded_count, failed_count,
                   scratch, status, summary, log>>

\* line 125, inside the inner try
EditImporting ==
    /\ pc = "edit_importing"
    /\ \E ok \in BOOLEAN : Edit(ok, "importing", "import", "edit_no_access")
    /\ UNCHANGED <<message_text, folder_id, folder_files, media_files, i,
                   uploaded_count, failed_count, scratch, summary, calls, log>>

\* line 126
ImportPublicUrl ==
    /\ pc = "import"
    /\ calls' = [calls EXCEPT !.import_public_url = @ + 1]
    /\ \E ok \in BOOLEAN : pc' = IF ok THEN "relist" ELSE "edit_no_access"
    /\ UNCHANGED <<message_text, folder_id, folder_files, media_files, i,
                   uploaded_count, failed_count, scratch, status, summary, log>>

\* lines 127-132
Relist ==
    /\ pc = "relist"
    /\ calls' = [calls EXCEPT !.get_files = @ + 1]
    /\ \/ /\ pc' = "edit_no_access"
          /\ UNCHANGED folder_files
       \/ \E files \in Listings :
            /\ folder_files' = folder_files \o ImportedFolderFiles(files)
            /\ pc' = "resolved"
    /\ UNCHANGED <<message_text, folder_id, media_files, i, uploaded_count,
                   failed_count, scratch, status, summary, log>>

\* lines 134-137: the inner except; a raising edit leaves it for the outer one
EditNoAccess ==
    /\ pc = "edit_no_access"
    /\ \E ok \in BOOLEAN : Edit(ok, "no_access", "returned", "outer_except")
    /\ UNCHANGED <<message_text, folder_id, folder_files, media_files, i,
                   uploaded_count, failed_count, scratch, summary, calls, log>>

\* lines 139-141
ReportNoFiles ==
    /\ pc = "resolved"
    /\ folder_files = <<>>
    /\ \E ok \in BOOLEAN : Edit(ok, "no_files", "returned", "outer_except")
    /\ UNCHANGED <<message_text, folder_id, folder_files, media_files, i,
                   uploaded_count, failed_count, scratch, summary, calls, log>>

\* lines 144-148
ReportNoMedia ==
    /\ pc = "resolved"
    /\ folder_files # <<>>
    /\ filter_media_files(folder_files) = <<>>
    /\ media_files' = <<>>
    /\ \E ok \in BOOLEAN : Edit(ok, "no_media", "returned", "outer_except")
    /\ UNCHANGED <<message_text, folder_id, folder_files, i, uploaded_count,
                   failed_count, scratch, summary, calls, log>>

\* lines 144-156: the media set, the "Found" status, the counters, the loop
StartTransfer ==
    /\ pc = "resolved"
    /\ folder_files # <<>>
    /\ filter_media_files(folder_files) # <<>>
    /\ media_files' = filter_media_files(folder_files)
    /\ \E ok \in BOOLEAN :
        /\ Edit(ok, "found", "loop", "outer_except")
        /\ i' = IF ok THEN 1 ELSE i
        /\ uploaded_count' = IF ok THEN 0 ELSE uploaded_count
        /\ failed_count' = IF ok THEN 0 ELSE failed_count
        /\ log' = IF ok THEN [k \in DOMAIN media_files' |-> FreshLog] ELSE log
    /\ UNCHANGED <<message_text, folder_id, folder_files, scratch, summary, calls>>

\* lines 187-190: the per-file except
FailFile ==
    /\ failed_count' = failed_count + 1
    /\ i' = i + 1
    /\ pc' = "loop"

\* lines 158-165
EditDownloading ==
    /\ pc = "loop"
    /\ i <= Len(media_files)
    /\ \E ok \in BOOLEAN :
        IF ~media_files[i].hasS
        THEN /\ FailFile
             /\ log' = [log EXCEPT ![i].fail = @ + 1, ![i].cause = "size"]
             /\ UNCHANGED status
        ELSE IF ok
        THEN /\ status' = "downloading"
             /\ pc' = "download"
             /\ UNCHANGED <<i, failed_count, log>>
        ELSE /\ FailFile
             /\ log' = [log EXCEPT ![i].fail = @ + 1, ![i].cause = "edit_download"]
             /\ UNCHANGED status
    /\ UNCHANGED <<message_text, folder_id, folder_files, media_files,
                   uploaded_count, scratch, summary, calls>>

\* Download with the per-file try missing: a raising download ends the loop
DownloadAbortsRun ==
    /\ pc = "download"
    /\ \E ok \in BOOLEAN :
        IF ok
        THEN /\ scratch' = scratch \cup {media_files[i].n}
             /\ log' = [log EXCEPT ![i].dl = @ + 1, ![i].dl_ok = TRUE]
             /\ pc' = "edit_uploading"
        ELSE /\ log' = [log EXCEPT ![i].dl = @ + 1, ![i].cause = "download"]
             /\ pc' = "outer_except"
             /\ UNCHANGED scratch
    /\ UNCHANGED <<message_text, folder_id, folder_files, media_files, i,
                   uploaded_count, failed_count, status, summary, calls>>

\* Download tried again after it raised
DownloadRetries ==
    /\ pc = "download"
    /\ \E ok \in BOOLEAN :
        IF ok
        THEN /\ scratch' = scratch \cup {media_files[i].n}
             /\ log' = [log EXCEPT ![i].dl = @ + 1, ![i].dl_ok = TRUE]
             /\ pc' = "edit_uploading"
        ELSE /\ log' = [log EXCEPT ![i].dl = @ + 1]
             /\ pc' = "download"
             /\ UNCHANGED scratch
    /\ UNCHANGED <<message_text, folder_id, folder_files, media_files, i,
                   uploaded_count, failed_count, status, summary, calls>>

\* lines 168-169
Download ==
    /\ pc = "download"
    /\ \E ok \in BOOLEAN :
        IF ok
        THEN /\ scratch' = scratch \cup {media_files[i].n}
             /\ log' = [log EXCEPT ![i].dl = @ + 1, ![i].dl_ok = TRUE]
             /\ pc' = "edit_uploading"
             /\ UNCHANGED <<i, failed_count>>
        ELSE /\ FailFile
             /\ log' = [log EXCEPT ![i].dl = @ + 1, ![i].fail = @ + 1,
                                   ![i].cause = "download"]
             /\ UNCHANGED scratch
    /\ UNCHANGED <<message_text, folder_id, folder_files, media_files,
                   uploaded_count, status, summary, calls>>

\* lines 172-174
EditUploading ==
    /\ pc = "edit_uploading"
    /\ \E ok \in BOOLEAN :
        IF ok
        THEN /\ status' = "uploading"
             /\ pc' = "upload"
             /\ UNCHANGED <<i, failed_count, log>>
        ELSE /\ FailFile
             /\ log' = [log EXCEPT ![i].fail = @ + 1, ![i].cause = "edit_upload"]
             /\ UNCHANGED status
    /\ UNCHANGED <<message_text, folder_id, folder_files, media_files,
                   uploaded_count, scratch, summary, calls>>

\* UploadToTelegram without the `else: failed_count += 1'
UploadToTelegramNoFailCount ==
    /\ pc = "upload"
    /\ \E success \in BOOLEAN :
        IF success
        THEN /\ uploaded_count' = uploaded_count + 1
             /\ log' = [log EXCEPT ![i].snd = @ + 1, ![i].up = @ + 1]
        ELSE /\ log' = [log EXCEPT ![i].snd = @ + 1, ![i].cause = "send"]
             /\ UNCHANGED uploaded_count
    /\ scratch' = scratch \ {media_files[i].n}
    /\ i' = i + 1
    /\ pc' = "loop"
    /\ UNCHANGED <<message_text, folder_id, folder_files, media_files, status,
                   summary, calls, failed_count>>

\* lines 176-185 with upload_to_telegram (223-259), which returns False on
\* any exception; then the local file is removed
UploadToTelegram ==
    /\ pc = "upload"
    /\ \E success \in BOOLEAN :
        IF success
        THEN /\ uploaded_count' = uploaded_count + 1
             /\ log' = [log EXCEPT ![i].snd = @ + 1, ![i].up = @ + 1]
             /\ UNCHANGED failed_count
        ELSE /\ failed_count' = failed_count + 1
             /\ log' = [log EXCEPT ![i].snd = @ + 1, ![i].fail = @ + 1,
                                   ![i].cause = "send"]
             /\ UNCHANGED uploaded_count
    /\ scratch' = scratch \ {media_files[i].n}
    /\ i' = i + 1
    /\ pc' = "loop"
    /\ UNCHANGED <<message_text, folder_id, folder_files, media_files, status,
                   summary, calls>>

\* lines 193-199
FinalStatus ==
    /\ pc = "loop"
    /\ i > Len(media_files)
    /\ \E ok \in BOOLEAN :
        /\ Edit(ok, "summary", "returned", "outer_except")
        /\ summary' = IF ok
                      THEN [shown |-> TRUE, uploaded |-> uploaded_count,
                            failed |-> failed_count, total |-> Len(media_files)]
                      ELSE summary
    /\ UNCHANGED <<message_text, folder_id, folder_files, media_files, i,
                   uploaded_count, failed_count, scratch, calls, log>>

\* lines 201-203: a raising edit leaves process_mega_folder
OuterExcept ==
    /\ pc = "outer_except"
    /\ \E ok \in BOOLEAN : Edit(ok, "error", "returned", "handler_except")
    /\ UNCHANGED <<message_text, folder_id, folder_files, media_files, i,
                   uploaded_count, failed_count, scratch, summary, calls, log>>

\* lines 69-74: a raising edit leaves handle_mega_link
HandlerExcept ==
    /\ pc = "handler_except"
    /\ \E ok \in BOOLEAN : Edit(ok, "handler_error", "returned", "raised")
    /\ UNCHANGED <<message_text, folder_id, folder_files, media_files, i,
                   uploaded_count, failed_count, scratch, summary, calls, log>>

Next ==
    \/ HandleMegaLink
    \/ EditConnecting
    \/ Login
    \/ EditGetting
    \/ RejectLinkFormat
    \/ GetFiles
    \/ EditImporting
    \/ ImportPublicUrl
    \/ Relist
    \/ EditNoAccess
    \/ ReportNoFiles
    \/ ReportNoMedia
    \/ StartTransfer
    \/ EditDownloading
    \/ Download
    \/ EditUploading
    \/ UploadToTelegram
    \/ FinalStatus
    \/ OuterExcept
    \/ HandlerExcept

Spec == Init /\ [][Next]_vars

\* Every call the handler awaits or blocks on returns or raises, and the
\* interpreter then runs the handler to its next call: a step that is
\* enabled is eventually taken.
FairSpec == Spec /\ WF_vars(Next)

----------------------------------------------------------------------------
(* Properties *)

LoopPcs == {"loop", "download", "edit_uploading", "upload"}

\* the for loop has run to its end
LoopCompleted == i > 0 /\ i > Len(media_files) /\ pc \notin {"download", "edit_uploading", "upload"}

\* the handler has received its text
Received == pc # "idle"

FailuresCountedOnce ==
    /\ \A k \in DOMAIN log :
        log[k].cause # "none" => log[k].fail = 1 /\ log[k].up = 0
    /\ (i > 0 /\ pc \notin LoopPcs) =>
        /\ i = Len(media_files) + 1
        /\ \A k \in DOMAIN log : log[k].up + log[k].fail = 1
    /\ pc \in LoopPcs =>
        \A k \in DOMAIN log : k < i => log[k].up + log[k].fail = 1
    /\ ( /\ summary.shown
         /\ Len(media_files) = 2
         /\ log[1].cause = "download"
         /\ log[2].up = 1 ) =>
        summary = [shown |-> TRUE, uploaded |-> 1, failed |-> 1, total |-> 2]

\* the final status edit has been made: it showed the summary, or it raised
FinalStatusAttempted ==
    summary.shown \/ (pc = "outer_except" /\ i > Len(media_files))

C3_NoScratchRemains ==
    /\ pc = "loop" => \A k \in DOMAIN media_files : k < i => media_files[k].n \notin scratch
    /\ Cardinality(scratch) <= 1

\* a link the classifier accepts and the folder pattern does not match
AcceptedNoFragment ==
    /\ Received
    /\ is_mega_link(message_text)
    /\ ~folder_pattern_search(message_text).found

\* C4: for an accepted link without a #F!token!key fragment the run makes no
\* storage call at all, never starts the transfer loop, and when it returns
\* the status shown is the invalid-format one.
C4_NoNetworkBeforeReject ==
    AcceptedNoFragment =>
        /\ calls = NoCalls
        /\ i = 0 /\ log = <<>>
        /\ pc = "returned" => status = "invalid_format"

\* C4 as amended: for such a link no listing, import, download or upload is
\* made and the loop never starts; the anonymous login is made, once, before
\* the link is rejected; the invalid-format status is shown only after that
\* login, and a run that returns shows it unless an earlier status edit or
\* the login raised, in which case it shows an error status.
C4_RejectedAfterLogin ==
    AcceptedNoFragment =>
        /\ calls.get_files = 0 /\ calls.import_public_url = 0
        /\ calls.login <= 1
        /\ i = 0 /\ log = <<>> /\ scratch = {} /\ media_files = <<>>
        /\ pc \in {"connecting", "login", "edit_getting", "match",
                   "outer_except", "handler_except", "returned", "raised"}
        /\ status = "invalid_format" => calls.login = 1 /\ pc = "returned"
        /\ pc = "returned" => status \in {"invalid_format", "error", "handler_error"}
        /\ pc = "match" => calls.login = 1

C4_Witness ==
    /\ message_text = LinkNoFragment
    /\ AcceptedNoFragment
    /\ pc = "returned"
    /\ status = "invalid_format"
    /\ calls = [login |-> 1, get_files |-> 0, import_public_url |-> 0]

\* keys of the records m.download / upload_to_telegram was called for
Downloaded == {media_files[k].id : k \in {j \in DOMAIN log : log[j].dl > 0}}
Sent == {media_files[k].id : k \in {j \in DOMAIN log : log[j].snd > 0}}
Keys(files) == {files[k].id : k \in DOMAIN files}

\* the entry has a name whose lowercase form ends with an allow-listed extension
NamedMedia(e) ==
    /\ e.hasA
    /\ e.hasN
    /\ \E ext \in media_extensions :
        /\ Len(ext) <= Len(e.n)
        /\ \A k \in 1..Len(ext) :
            LowerChar(e.n[Len(e.n) - Len(ext) + k]) = ext[k]

\* positions of the media set whose record was downloaded or sent
Transferred == {k \in DOMAIN log : log[k].dl > 0 \/ log[k].snd > 0}

\* C5: every record downloaded or sent is a record of the resolved folder
\* that has a name ending, in lowercase, with an allow-listed extension; so
\* the records transferred are among filter_media_files(folder_files), and
\* the loop makes as many iterations as the folder has such records (2 for
\* a folder of 3 with one .pdf).
C5_OnlyMediaTransferred ==
    /\ \A k \in Transferred :
        /\ NamedMedia(media_files[k])
        /\ media_files[k] \in Range(folder_files)
    /\ Transferred # {} =>
        Downloaded \cup Sent \subseteq Keys(filter_media_files(folder_files))
    /\ i > 0 =>
        Len(log) = Cardinality({k \in DOMAIN folder_files : NamedMedia(folder_files[k])})

C5_Witness ==
    /\ Len(folder_files) = 3
    /\ \E k \in DOMAIN folder_files : folder_files[k].n = EntryPdf.n
    /\ Len(log) = 2
    /\ Cardinality(Downloaded) = 2
    /\ Cardinality(Sent) = 2
    /\ LoopCompleted

\* C6: no exception leaves handle_mega_link.
C6_NothingPropagates == pc # "raised"

\* C7: the import fallback is entered only with an empty direct listing and
\* is made at most once; while the folder has no entry, and after either
\* failure status, the transfer loop has not started and nothing was
\* downloaded or sent; a run that listed the files, found no entry and
\* returned shows a failure status.
C7_ResolutionFailureStopsRun ==
    /\ pc \in {"edit_importing", "import", "relist", "edit_no_access"} =>
        folder_files = <<>>
    /\ calls.import_public_url <= 1
    /\ calls.import_public_url = 1 => calls.get_files >= 1
    /\ calls.get_files = 2 => calls.import_public_url = 1
    /\ folder_files = <<>> =>
        /\ i = 0 /\ log = <<>> /\ media_files = <<>> /\ scratch = {}
        /\ pc \notin LoopPcs
    /\ status \in {"no_files", "no_access"} =>
        /\ folder_files = <<>>
        /\ pc = "returned"
        /\ calls.import_public_url <= 1
    /\ status = "no_files" => calls.import_public_url = 1 /\ calls.get_files = 2
    /\ (pc = "returned" /\ calls.get_files >= 1 /\ folder_files = <<>>) =>
        status \in {"no_files", "no_access", "error", "handler_error"}

C7_Witness ==
    /\ status = "no_files"
    /\ pc = "returned"
    /\ calls = [login |-> 1, get_files |-> 2, import_public_url |-> 1]

\* C8: each record is downloaded at most once and sent at most once, is sent
\* only after its download returned, is counted at most once, and once
\* counted as failed stays so; failed_count never decreases.
C8_NoRetries ==
    /\ [](\A k \in DOMAIN log :
            /\ log[k].dl <= 1
            /\ log[k].snd <= 1
            /\ log[k].snd = 1 => log[k].dl_ok /\ log[k].dl = 1
            /\ log[k].up + log[k].fail <= 1)
    /\ [][ /\ failed_count' >= failed_count
           /\ \A k \in DOMAIN log :
                log[k].fail = 1 =>
                    /\ k \in DOMAIN log'
                    /\ log'[k].fail = 1
                    /\ log'[k].up = 0
                    /\ log'[k].dl = log[k].dl
                    /\ log'[k].snd = log[k].snd ]_vars

C8_Witness ==
    /\ summary.shown
    /\ \E k \in DOMAIN log :
        log[k].cause = "download" /\ log[k].dl = 1 /\ log[k].snd = 0
    /\ \E k \in DOMAIN log :
        log[k].cause = "send" /\ log[k].dl = 1 /\ log[k].snd = 1

\* C9: for a text is_mega_link rejects, no storage call is made, nothing
\* is downloaded or sent, and the handler only replies with the usage error.
C9_RejectedTextDoesNothing ==
    (Received /\ ~is_mega_link(message_text)) =>
        /\ calls = NoCalls
        /\ i = 0 /\ log = <<>> /\ scratch = {}
        /\ folder_files = <<>> /\ media_files = <<>>
        /\ pc \in {"returned", "raised"}
        /\ status \in {"none", "usage"}
        /\ pc = "returned" => status = "usage"

C9_Witness ==
    /\ message_text = LinkOtherHost
    /\ folder_pattern_search(message_text).found
    /\ pc = "returned"
    /\ status = "usage"

\* the media set in the state is the result of filter_media_files(folder_files)
FilterApplied == i > 0 \/ status = "no_media"

\* C10: the result of filter_media_files is the sub-mapping, in the order of
\* its argument, of exactly the entries that have a name whose lowercase
\* form ends with an allow-listed extension, and filtering it again changes
\* nothing.
C10_FilterExact ==
    FilterApplied =>
        /\ media_files = SelectSeq(folder_files, NamedMedia)
        /\ \A e \in Range(folder_files) : e \in Range(media_files) <=> NamedMedia(e)
        /\ Range(media_files) \subseteq Range(folder_files)
        /\ filter_media_files(media_files) = media_files

C10_Witness ==
    /\ FilterApplied
    /\ \E e \in Range(folder_files) : e.hasA /\ ~e.hasN
    /\ \E e \in Range(folder_files) : e.n = EntryPdf.n
    /\ \E e \in Range(media_files) : e.n = EntryJpg.n
    /\ Len(media_files) < Len(folder_files)

====
